---- MODULE Spec2Model ----
(***************************************************************************)
(* The text-analysis pipeline of streamlit_writer_tool.py.                 *)
(*                                                                         *)
(* A Python str is modelled as a sequence of characters, each character a  *)
(* TLA+ string.  ASCII characters stand for themselves; the non-ASCII      *)
(* characters the source names are written                                 *)
(*    "LDQUO" U+201C   "RDQUO" U+201D   "LSQUO" U+2018   "RSQUO" U+2019    *)
(*    "EMDASH" U+2014                                                      *)
(* Every function of the pipeline is pure; the state machine draws an      *)
(* input text in Init and its actions are the operations that main()       *)
(* offers on that text.                                                    *)
(*                                                                         *)
(* A report is the list that analyze_text builds before it joins it with   *)
(* newlines: one record per entry, whose kind tells a section label        *)
(* ("heading") from the finding, statistic or sentinel line under it.  The *)
(* emoji that decorate the labels are left out.  The three values that     *)
(* textstat computes are kept as the call that yields them.                *)
(***************************************************************************)
EXTENDS Integers, Sequences, FiniteSets, TLC

VARIABLES text, style, pc, cleaned, recleaned, dialogue, speakers, report,
          passive, suggestions

vars == <<text, style, pc, cleaned, recleaned, dialogue, speakers, report,
          passive, suggestions>>

(***************************************************************************)
(* Characters and character classes (Python str / re semantics).           *)
(***************************************************************************)
LowerLetters ==
  <<"a","b","c","d","e","f","g","h","i","j","k","l","m",
    "n","o","p","q","r","s","t","u","v","w","x","y","z">>

UpperLetters ==
  <<"A","B","C","D","E","F","G","H","I","J","K","L","M",
    "N","O","P","Q","R","S","T","U","V","W","X","Y","Z">>

Range(f) == {f[i] : i \in DOMAIN f}

LowerSet == Range(LowerLetters)

UpperSet == Range(UpperLetters)

\* str.lower() on one character
LowerMap ==
  [c \in UpperSet |-> LowerLetters[CHOOSE i \in 1..26 : UpperLetters[i] = c]]

LowerChar(c) == IF c \in UpperSet THEN LowerMap[c] ELSE c

\* str.lower()
RECURSIVE LowerFrom(_, _, _)
LowerFrom(s, i, acc) ==
  IF i > Len(s) THEN acc ELSE LowerFrom(s, i + 1, Append(acc, LowerChar(s[i])))

Lower(s) == LowerFrom(s, 1, <<>>)

\* \s of re, and the separators of str.split()
Spaces == {" ", "\n", "\t"}

IsSpace(c) == c \in Spaces

Digits == {"0", "1", "2", "3", "4", "5", "6", "7", "8", "9"}

\* the characters \w of re accepts
WordChars == LowerSet \cup UpperSet \cup Digits \cup {"_"}

IsWordChar(c) == c \in WordChars

\* str.isalpha()
IsAlpha(s) == s # <<>> /\ \A i \in 1..Len(s) : s[i] \in LowerSet \cup UpperSet

\* whether the literal pat occurs in s at position i (1-based)
MatchesAt(s, i, pat) ==
  /\ i + Len(pat) - 1 <= Len(s)
  /\ \A k \in 1..Len(pat) : s[i + k - 1] = pat[k]

\* str.replace(old, new): left to right, non-overlapping
RECURSIVE ReplaceFrom(_, _, _, _)
ReplaceFrom(s, i, old, new) ==
  IF i > Len(s) THEN <<>>
  ELSE IF MatchesAt(s, i, old)
       THEN new \o ReplaceFrom(s, i + Len(old), old, new)
       ELSE <<s[i]>> \o ReplaceFrom(s, i + 1, old, new)

Replace(s, old, new) == ReplaceFrom(s, 1, old, new)

\* str.count(sub): non-overlapping occurrences, left to right
RECURSIVE CountFrom(_, _, _)
CountFrom(s, i, sub) ==
  IF i + Len(sub) - 1 > Len(s) THEN 0
  ELSE IF MatchesAt(s, i, sub)
       THEN 1 + CountFrom(s, i + Len(sub), sub)
       ELSE CountFrom(s, i + 1, sub)

Count(s, sub) == CountFrom(s, 1, sub)

\* str.split(): the maximal runs of non-whitespace characters, in order
RECURSIVE SplitFrom(_, _, _)
SplitFrom(s, i, cur) ==
  IF i > Len(s) THEN (IF cur = <<>> THEN <<>> ELSE <<cur>>)
  ELSE IF IsSpace(s[i])
       THEN (IF cur = <<>> THEN <<>> ELSE <<cur>>) \o SplitFrom(s, i + 1, <<>>)
       ELSE SplitFrom(s, i + 1, Append(cur, s[i]))

Split(s) == SplitFrom(s, 1, <<>>)

\* sep.join(parts)
RECURSIVE Join(_, _)
Join(sep, parts) ==
  IF parts = <<>> THEN <<>>
  ELSE IF Len(parts) = 1 THEN parts[1]
  ELSE parts[1] \o sep \o Join(sep, Tail(parts))

\* str.strip()
RECURSIVE LStrip(_)
LStrip(s) == IF s # <<>> /\ IsSpace(s[1]) THEN LStrip(Tail(s)) ELSE s

RECURSIVE RStrip(_)
RStrip(s) ==
  IF s # <<>> /\ IsSpace(s[Len(s)]) THEN RStrip(SubSeq(s, 1, Len(s) - 1)) ELSE s

Strip(s) == RStrip(LStrip(s))

(***************************************************************************)
(* clean_text                                                              *)
(***************************************************************************)
\* the variant that joins the words with the empty string
clean_text_nosep(t) ==
  LET a == Replace(Replace(t, <<"LDQUO">>, <<"\"">>), <<"RDQUO">>, <<"\"">>)
      b == Replace(Replace(a, <<"LSQUO">>, <<"'">>), <<"RSQUO">>, <<"'">>)
      c == Replace(b, <<"-", "-">>, <<"EMDASH">>)
  IN  Join(<<>>, Split(c))

\* the variant that leaves the right single quote alone
clean_text_norsquo(t) ==
  LET a == Replace(Replace(t, <<"LDQUO">>, <<"\"">>), <<"RDQUO">>, <<"\"">>)
      b == Replace(a, <<"LSQUO">>, <<"'">>)
      c == Replace(b, <<"-", "-">>, <<"EMDASH">>)
  IN  Join(<<" ">>, Split(c))

clean_text(t) ==
  LET a == Replace(Replace(t, <<"LDQUO">>, <<"\"">>), <<"RDQUO">>, <<"\"">>)
      b == Replace(Replace(a, <<"LSQUO">>, <<"'">>), <<"RSQUO">>, <<"'">>)
      c == Replace(b, <<"-", "-">>, <<"EMDASH">>)
  IN  Join(<<" ">>, Split(c))

(***************************************************************************)
(* Runs of characters, and the tokenizers of nltk                          *)
(***************************************************************************)
\* the end of the longest run, from i on, of characters in the set cls
\* (i - 1 when the run is empty)
RECURSIVE RunIn(_, _, _)
RunIn(s, i, cls) ==
  IF i <= Len(s) /\ s[i] \in cls THEN RunIn(s, i + 1, cls) ELSE i - 1

\* the end of the longest run, from i on, of characters outside the set stop
\* (i - 1 when the run is empty)
RECURSIVE RunNotIn(_, _, _)
RunNotIn(s, i, stop) ==
  IF i <= Len(s) /\ s[i] \notin stop THEN RunNotIn(s, i + 1, stop) ELSE i - 1

\* nltk.tokenize.wordpunct_tokenize: re.findall(r'\w+|[^\w\s]+', s)
RECURSIVE WordPunctFrom(_, _)
WordPunctFrom(s, i) ==
  IF i > Len(s) THEN <<>>
  ELSE IF IsSpace(s[i]) THEN WordPunctFrom(s, i + 1)
  ELSE LET j == IF IsWordChar(s[i]) THEN RunIn(s, i, WordChars)
                ELSE RunNotIn(s, i, WordChars \cup Spaces)
       IN  <<SubSeq(s, i, j)>> \o WordPunctFrom(s, j + 1)

wordpunct_tokenize(s) == WordPunctFrom(s, 1)

SentEndChars == {".", "?", "!"}

\* PunktSentenceTokenizer().tokenize(text) with untrained parameters, on prose
\* whose words have two or more letters: a sentence ends at a sentence-end
\* character followed by whitespace and a further token; the whitespace
\* between sentences belongs to none; the last sentence is right-stripped and
\* dropped when empty.
RECURSIVE PunktFrom(_, _, _)
PunktFrom(s, start, i) ==
  IF i > Len(s)
  THEN LET last == SubSeq(s, start, Len(RStrip(s)))
       IN  IF last = <<>> THEN <<>> ELSE <<last>>
  ELSE LET nx == RunIn(s, i + 1, Spaces) + 1
       IN  IF s[i] \in SentEndChars /\ nx > i + 1 /\ nx <= Len(s)
           THEN <<SubSeq(s, start, i)>> \o PunktFrom(s, nx, nx)
           ELSE PunktFrom(s, start, i + 1)

PunktTokenize(s) == PunktFrom(s, 1, 1)

(***************************************************************************)
(* Constants and presets                                                   *)
(***************************************************************************)
FILLER_WORDS ==
  << <<"j","u","s","t">>, <<"r","e","a","l","l","y">>, <<"v","e","r","y">>,
     <<"t","h","a","t">>, <<"a","c","t","u","a","l","l","y">>,
     <<"l","i","k","e">>, <<"m","a","y","b","e">>,
     <<"s","o","m","e","w","h","a","t">>, <<"p","e","r","h","a","p","s">>,
     <<"q","u","i","t","e">> >>

STYLE_PRESETS ==
  [Gritty |->
     [emphasis |-> "Cliche detection, passive voice, long sentences",
      note |-> "Highlights harshness and realism - cracks down on cliches and overwritten prose."],
   Snappy |->
     [emphasis |-> "Filler words, punchy structure, dialogue ratio",
      note |-> "Focuses on rhythm, minimalism, and active scenes."],
   Poetic |->
     [emphasis |-> "Flow, sentence variety, rhythm",
      note |-> "Tolerates longer prose, flags broken rhythm or repetition."],
   Technical |->
     [emphasis |-> "Passive voice, clarity, redundancy",
      note |-> "Suited for nonfiction or precise procedural tone."],
   Sparse |->
     [emphasis |-> "Minimal filler, clarity, clean structure",
      note |-> "Zero fluff. Cuts verbosity. Favors clean delivery."]]

\* sentences of more tokens than this are long
LongSentenceTokens == 30

\* sentences of more filler occurrences than this are padded
FillerLimit == 2

\* how many frequent words the report lists
TopWords == 5

\* stopwords.words('english') of nltk, restricted to the words that the
\* passive pattern and the filler catalog can put into a text
STOPWORDS ==
  { <<"w","a","s">>, <<"w","e","r","e">>, <<"i","s">>, <<"a","r","e">>,
    <<"b","e","i","n","g">>, <<"b","e","e","n">>, <<"h","a","s">>,
    <<"h","a","v","e">>, <<"h","a","d">>, <<"j","u","s","t">>,
    <<"v","e","r","y">>, <<"t","h","a","t">> }

(***************************************************************************)
(* The passive-voice pattern                                               *)
(*   \b(was|were|is being|are being|has been|have been|had been)\b\s+\w+ed\b *)
(***************************************************************************)
PassiveAux ==
  { <<"w","a","s">>, <<"w","e","r","e">>,
    <<"i","s"," ","b","e","i","n","g">>, <<"a","r","e"," ","b","e","i","n","g">>,
    <<"h","a","s"," ","b","e","e","n">>, <<"h","a","v","e"," ","b","e","e","n">>,
    <<"h","a","d"," ","b","e","e","n">> }

\* whether the pattern matches s starting at i; t is s as the flags compare
\* it (lower-cased under re.IGNORECASE).  The classes \s and \w are disjoint,
\* so \s+ takes the whole run of whitespace and \w+ed\b the whole run of word
\* characters, which must end in "ed".
PassiveAt(s, t, i) ==
  /\ i = 1 \/ ~IsWordChar(s[i - 1])
  /\ \E aux \in PassiveAux :
        /\ MatchesAt(t, i, aux)
        /\ LET e == i + Len(aux)
               w == RunIn(s, e, Spaces) + 1
               r == RunIn(s, w, WordChars)
           IN  /\ w > e
               /\ r - w + 1 >= 3
               /\ t[r - 1] = "e"
               /\ t[r] = "d"

\* re.search(pattern, s) finds a match; ic is re.IGNORECASE
PassiveSearch(s, ic) ==
  LET t == IF ic THEN Lower(s) ELSE s
  IN  \E i \in 1..Len(s) : PassiveAt(s, t, i)

(***************************************************************************)
(* suggest_improvements                                                    *)
(***************************************************************************)
LongAdvice == "Consider breaking this long sentence into two or more."

ActiveAdvice == "Try rephrasing in active voice."

FillerAdvice == "This line may be padded with filler words."

NoSuggestions == [kind |-> "line", line |-> "No smart suggestions needed"]

\* sum(sentence.lower().count(fw) for fw in FILLER_WORDS), from the k-th on
RECURSIVE FillerSum(_, _)
FillerSum(low, k) ==
  IF k > Len(FILLER_WORDS) THEN 0
  ELSE Count(low, FILLER_WORDS[k]) + FillerSum(low, k + 1)

filler_count(sentence) == FillerSum(Lower(sentence), 1)

\* the body of the loop of suggest_improvements: the issues of one sentence
SentenceIssues(sentence) ==
  (IF Len(wordpunct_tokenize(sentence)) > LongSentenceTokens
   THEN <<LongAdvice>> ELSE <<>>)
  \o (IF PassiveSearch(sentence, FALSE) THEN <<ActiveAdvice>> ELSE <<>>)
  \o (IF filler_count(sentence) > FillerLimit THEN <<FillerAdvice>> ELSE <<>>)

RECURSIVE SuggestFrom(_, _)
SuggestFrom(sentences, i) ==
  IF i > Len(sentences) THEN <<>>
  ELSE LET issues == SentenceIssues(sentences[i])
       IN  (IF issues # <<>>
            THEN <<[kind |-> "suggestion", n |-> i,
                    s |-> Strip(sentences[i]), issues |-> issues]>>
            ELSE <<>>)
           \o SuggestFrom(sentences, i + 1)

suggest_improvements(t) ==
  LET suggestions_ == SuggestFrom(PunktTokenize(t), 1)
  IN  IF suggestions_ # <<>> THEN suggestions_ ELSE <<NoSuggestions>>

(***************************************************************************)
(* detect_passive_voice                                                    *)
(***************************************************************************)
RECURSIVE PassiveFrom(_, _)
PassiveFrom(sentences, i) ==
  IF i > Len(sentences) THEN <<>>
  ELSE (IF PassiveSearch(sentences[i], TRUE)
        THEN <<[kind |-> "passive", n |-> i, s |-> Strip(sentences[i])]>>
        ELSE <<>>)
       \o PassiveFrom(sentences, i + 1)

detect_passive_voice(t) == PassiveFrom(PunktTokenize(t), 1)

(***************************************************************************)
(* collections.Counter                                                     *)
(***************************************************************************)
CountEq(seq, x) == Cardinality({i \in DOMAIN seq : seq[i] = x})

\* the keys of Counter(seq), in insertion (first seen) order
RECURSIVE Distinct(_)
Distinct(seq) ==
  IF seq = <<>> THEN <<>>
  ELSE LET init == Distinct(SubSeq(seq, 1, Len(seq) - 1))
           x == seq[Len(seq)]
       IN  IF \E i \in DOMAIN init : init[i] = x THEN init ELSE Append(init, x)

\* Counter(seq).items(): <<key, count>> in insertion order
CounterItems(seq) ==
  LET keys == Distinct(seq)
  IN  [k \in 1..Len(keys) |-> <<keys[k], CountEq(seq, keys[k])>>]

\* the variant that reverses a stable ascending sort, which turns the items
\* of equal count around
SortedByCountReversed(items) ==
  LET rank(k) ==
        1 + Cardinality({j \in DOMAIN items : items[j][2] > items[k][2]})
          + Cardinality({j \in (k + 1)..Len(items) : items[j][2] = items[k][2]})
  IN  [r \in 1..Len(items) |-> items[CHOOSE k \in DOMAIN items : rank(k) = r]]

\* sorted(items, key=itemgetter(1), reverse=True): stable, so that items of
\* equal count keep their insertion order
SortedByCount(items) ==
  LET rank(k) ==
        1 + Cardinality({j \in DOMAIN items : items[j][2] > items[k][2]})
          + Cardinality({j \in 1..(k - 1) : items[j][2] = items[k][2]})
  IN  [r \in 1..Len(items) |-> items[CHOOSE k \in DOMAIN items : rank(k) = r]]

\* Counter(seq).most_common()
most_common(seq) == SortedByCount(CounterItems(seq))

\* Counter(seq).most_common(n)
most_common_n(seq, n) ==
  LET all == most_common(seq)
  IN  SubSeq(all, 1, IF Len(all) < n THEN Len(all) ELSE n)

(***************************************************************************)
(* analyze_text                                                            *)
(***************************************************************************)
Heading(l) == [kind |-> "heading", label |-> l]

Blank == [kind |-> "line", line |-> ""]

NoneFound == [kind |-> "line", line |-> "   None found"]

\* the values textstat computes are functions of the text alone, which the
\* report shows; they are kept as the call that yields them
TextStat(l, fn, t) == [kind |-> "textstat", label |-> l, fn |-> fn, arg |-> t]

StyleHeader(st) ==
  IF st \in DOMAIN STYLE_PRESETS
  THEN << [kind |-> "style", name |-> st],
          [kind |-> "focus", emphasis |-> STYLE_PRESETS[st].emphasis],
          [kind |-> "note", note |-> STYLE_PRESETS[st].note],
          Blank >>
  ELSE <<>>

Summary(t) ==
  << Heading("Analysis Report:"),
     [kind |-> "stat", label |-> "Total words", value |-> Len(Split(t))],
     TextStat("Total sentences", "sentence_count", t),
     TextStat("Avg sentence length", "words_per_sentence", t),
     TextStat("Reading grade level", "flesch_kincaid_grade", t),
     Blank >>

\* for w in FILLER_WORDS: c = text.lower().split().count(w); if c > 0: ...
RECURSIVE FillerLines(_, _)
FillerLines(words, k) ==
  IF k > Len(FILLER_WORDS) THEN <<>>
  ELSE LET c == CountEq(words, FILLER_WORDS[k])
       IN  (IF c > 0
            THEN <<[kind |-> "count", w |-> FILLER_WORDS[k], c |-> c]>>
            ELSE <<>>)
           \o FillerLines(words, k + 1)

\* the variant whose threshold is off by one
RECURSIVE LongLinesAtLeast(_, _)
LongLinesAtLeast(sentences, i) ==
  IF i > Len(sentences) THEN <<>>
  ELSE LET wc == Len(wordpunct_tokenize(sentences[i]))
       IN  (IF wc >= LongSentenceTokens
            THEN <<[kind |-> "long", n |-> i, wc |-> wc, s |-> sentences[i]]>>
            ELSE <<>>)
           \o LongLinesAtLeast(sentences, i + 1)

RECURSIVE LongLines(_, _)
LongLines(sentences, i) ==
  IF i > Len(sentences) THEN <<>>
  ELSE LET wc == Len(wordpunct_tokenize(sentences[i]))
       IN  (IF wc > LongSentenceTokens
            THEN <<[kind |-> "long", n |-> i, wc |-> wc, s |-> sentences[i]]>>
            ELSE <<>>)
           \o LongLines(sentences, i + 1)

IsContentWord(w) == IsAlpha(w) /\ w \notin STOPWORDS

FrequentLines(t) ==
  LET words == SelectSeq(wordpunct_tokenize(Lower(t)), IsContentWord)
      top == most_common_n(words, TopWords)
  IN  [k \in 1..Len(top) |-> [kind |-> "count", w |-> top[k][1], c |-> top[k][2]]]

\* the variant without the sentinel
PassiveLinesBare(t) == detect_passive_voice(t)

PassiveLines(t) ==
  LET passive_ == detect_passive_voice(t)
  IN  IF passive_ # <<>> THEN passive_ ELSE <<NoneFound>>

FillerSection(t) ==
  <<Heading("Common Filler Words Found:")>> \o FillerLines(Split(Lower(t)), 1)

LongSection(t) ==
  <<Heading("Long Sentences (over 30 words):")>> \o LongLines(PunktTokenize(t), 1)

FrequentSection(t) ==
  <<Heading("Top 5 Most Frequent Words (excl. stopwords):")>> \o FrequentLines(t)

PassiveSection(t) ==
  <<Heading("Potential Passive Voice Sentences:")>> \o PassiveLines(t)

SuggestionSection(t) ==
  <<Heading("Smart Suggestions:"),
    [kind |-> "suggestions", body |-> suggest_improvements(t)]>>

\* the variant in which the Poetic preset, which "tolerates longer prose",
\* leaves the long sentences out
analyze_text_filtering(t, st) ==
  StyleHeader(st) \o Summary(t) \o FillerSection(t)
    \o (IF st = "Poetic" THEN <<Heading("Long Sentences (over 30 words):")>>
        ELSE LongSection(t))
    \o FrequentSection(t) \o PassiveSection(t) \o SuggestionSection(t)

\* the variant that leaves out the label of a section with no finding
analyze_text_skipping(t, st) ==
  StyleHeader(st) \o Summary(t)
    \o (IF Len(FillerSection(t)) > 1 THEN FillerSection(t) ELSE <<>>)
    \o LongSection(t) \o FrequentSection(t) \o PassiveSection(t)
    \o SuggestionSection(t)

analyze_text(t, st) ==
  StyleHeader(st) \o Summary(t) \o FillerSection(t) \o LongSection(t)
    \o FrequentSection(t) \o PassiveSection(t) \o SuggestionSection(t)

(***************************************************************************)
(* extract_dialogue                                                        *)
(***************************************************************************)
DialogueOpen(c) == c \in {"LDQUO", "\""}

DialogueClose(c) == c \in {"RDQUO", "\""}

DialogueQuotes == {"LDQUO", "RDQUO", "\""}

\* re.findall(r'[LDQUO"]([^LDQUO RDQUO "]+)[RDQUO"]', text): the groups of the
\* non-overlapping matches, left to right.  The inner class excludes every
\* closing character, so a match at i takes the whole run of inner characters.
RECURSIVE DialogueMatches(_, _)
DialogueMatches(s, i) ==
  IF i > Len(s) THEN <<>>
  ELSE LET j == RunNotIn(s, i + 1, DialogueQuotes)
       IN  IF DialogueOpen(s[i]) /\ j >= i + 1 /\ j + 1 <= Len(s)
              /\ DialogueClose(s[j + 1])
           THEN <<SubSeq(s, i + 1, j)>> \o DialogueMatches(s, j + 2)
           ELSE DialogueMatches(s, i + 1)

\* [f(x) for x in seq if x strips to something]
RECURSIVE StrippedNonEmpty(_)
StrippedNonEmpty(ms) ==
  IF ms = <<>> THEN <<>>
  ELSE (IF Strip(ms[1]) # <<>> THEN <<Strip(ms[1])>> ELSE <<>>)
       \o StrippedNonEmpty(Tail(ms))

extract_dialogue(t) == Join(<<"\n">>, StrippedNonEmpty(DialogueMatches(t, 1)))

(***************************************************************************)
(* dialogue_by_character                                                   *)
(***************************************************************************)
ReportingVerbs ==
  { <<"s","a","i","d">>, <<"a","s","k","e","d">>, <<"r","e","p","l","i","e","d">>,
    <<"w","h","i","s","p","e","r","e","d">>, <<"s","h","o","u","t","e","d">>,
    <<"c","r","i","e","d">>, <<"m","u","t","t","e","r","e","d">>,
    <<"y","e","l","l","e","d">>, <<"s","n","a","p","p","e","d">>,
    <<"c","a","l","l","e","d">> }

\* where the attribution pattern
\*   "[^"]+?"\s+(?:said|...|called)\s+([A-Z][a-zA-Z]*)
\* matches s from i: <<first, last>> of the name, or <<0, 0>> when it does
\* not.  No quote lies inside the span, so the lazy span ends at the first
\* quote after i; no verb is a prefix of another; the name is greedy.
AttributionAt(s, i) ==
  LET j == RunNotIn(s, i + 1, {"\""})
      w == RunIn(s, j + 2, Spaces) + 1
      verbs == {v \in ReportingVerbs : MatchesAt(s, w, v)}
  IN  IF /\ s[i] = "\""
         /\ j >= i + 1
         /\ j + 1 <= Len(s)
         /\ w > j + 2
         /\ verbs # {}
      THEN LET e == w + Len(CHOOSE v \in verbs : TRUE)
               n == RunIn(s, e, Spaces) + 1
           IN  IF n > e /\ n <= Len(s) /\ s[n] \in UpperSet
               THEN <<n, RunIn(s, n + 1, LowerSet \cup UpperSet)>>
               ELSE <<0, 0>>
      ELSE <<0, 0>>

\* re.findall(pattern, text): the names of the non-overlapping matches
RECURSIVE AttributionMatches(_, _)
AttributionMatches(s, i) ==
  IF i > Len(s) THEN <<>>
  ELSE LET m == AttributionAt(s, i)
       IN  IF m[1] > 0
           THEN <<SubSeq(s, m[1], m[2])>> \o AttributionMatches(s, m[2] + 1)
           ELSE AttributionMatches(s, i + 1)

NoNamedCharacters == [kind |-> "line", line |-> "No named characters found."]

dialogue_by_character(t) ==
  LET matches == AttributionMatches(t, 1)
      counts == most_common(matches)
  IN  IF matches = <<>> THEN <<NoNamedCharacters>>
      ELSE <<Heading("Dialogue by Character:")>>
           \o [k \in 1..Len(counts) |->
                 [kind |-> "speaker", name |-> counts[k][1], lines |-> counts[k][2]]]

(***************************************************************************)
(* Inputs                                                                  *)
(***************************************************************************)
MaxTextLen == 4

Alphabet == {"-", " ", "\n", "\"", "LDQUO", "RDQUO", "LSQUO", "RSQUO", "a"}

SeqsUpTo(S, n) == UNION {[1..k -> S] : k \in 0..n}

CharTexts == SeqsUpTo(Alphabet, MaxTextLen)

\* Prose: up to MaxWords words of one vocabulary, each word followed or not by
\* a full stop, separated by single spaces.
MaxWords == 3

Period(ends) == IF ends THEN <<".">> ELSE <<>>

Prose(ws) == Join(<<" ">>, [k \in 1..Len(ws) |-> ws[k][1] \o Period(ws[k][2])])

ProseOver(vocabulary) ==
  {Prose(ws) : ws \in SeqsUpTo(vocabulary \X BOOLEAN, MaxWords)}

Go == <<"g","o">>

\* a run of words that, with its full stop, is exactly at the long-sentence
\* threshold
LongRun == Join(<<" ">>, [k \in 1..(LongSentenceTokens - 1) |-> Go])

PassiveVocabulary == { <<"w","a","s">>, <<"W","a","s">>, <<"k","i","c","k","e","d">> }

FillerVocabulary == { <<"j","u","s","t">>, <<"e","v","e","r","y">>, <<"o","k">> }

LongVocabulary == { Go, LongRun }

\* prose with at most one long run in it
LongProse ==
  {Prose(ws) : ws \in
     {w \in SeqsUpTo(LongVocabulary \X BOOLEAN, MaxWords) :
        Cardinality({k \in DOMAIN w : w[k][1] = LongRun}) <= 1}}

ProseTexts ==
  ProseOver(PassiveVocabulary) \cup ProseOver(FillerVocabulary) \cup LongProse

Styles == DOMAIN STYLE_PRESETS \cup {"None", "Noir"}

\* Attributed dialogue: up to MaxLines pieces, each a quoted line with its
\* attribution, or a lone quote.
MaxLines == 5

Quoted == <<"\"","h","i","\""," ">>

Said == <<"s","a","i","d"," ">>

AttributionPieces ==
  { Quoted \o Said \o <<"A","n","n"," ">>,
    Quoted \o <<"a","s","k","e","d"," ">> \o <<"B","o","b"," ">>,
    Quoted \o <<"c","r","i","e","d"," ">> \o <<"C","y","."," ">>,
    Quoted \o Said \o <<"b","o","b"," ">>,
    <<"\"">> }

RECURSIVE Concat(_)
Concat(parts) == IF parts = <<>> THEN <<>> ELSE parts[1] \o Concat(Tail(parts))

DialogueTexts == {Concat(ps) : ps \in SeqsUpTo(AttributionPieces, MaxLines)}

(***************************************************************************)
(* The state machine                                                       *)
(***************************************************************************)
InitResults ==
  /\ pc = "input"
  /\ cleaned = <<>>
  /\ recleaned = <<>>
  /\ dialogue = <<>>
  /\ speakers = <<>>
  /\ report = <<>>
  /\ passive = <<>>
  /\ suggestions = <<>>

\* main(): cleaned = clean_text(raw_text)
CleanText ==
  /\ pc = "input"
  /\ cleaned' = clean_text(text)
  /\ pc' = "cleaned"
  /\ UNCHANGED <<text, style, recleaned, dialogue, speakers, report,
                 passive, suggestions>>

\* clean_text applied to its own output
CleanAgain ==
  /\ pc = "cleaned"
  /\ recleaned' = clean_text(cleaned)
  /\ pc' = "recleaned"
  /\ UNCHANGED <<text, style, cleaned, dialogue, speakers, report,
                 passive, suggestions>>

\* main(): dialogue = extract_dialogue(raw_text)
ExtractDialogue ==
  /\ pc = "input"
  /\ dialogue' = extract_dialogue(text)
  /\ pc' = "dialogue"
  /\ UNCHANGED <<text, style, cleaned, recleaned, speakers, report,
                 passive, suggestions>>

\* main(): report = analyze_text(raw_text, style), style from the selectbox
AnalyzeText ==
  /\ pc = "input"
  /\ \E st \in Styles :
       /\ style' = st
       /\ report' = analyze_text(text, st)
  /\ pc' = "analyzed"
  /\ UNCHANGED <<text, cleaned, recleaned, dialogue, speakers, passive,
                 suggestions>>

\* suggest_improvements(text)
SuggestImprovements ==
  /\ pc = "input"
  /\ suggestions' = suggest_improvements(text)
  /\ pc' = "suggested"
  /\ UNCHANGED <<text, style, cleaned, recleaned, dialogue, speakers, report,
                 passive>>

\* detect_passive_voice(text)
DetectPassiveVoice ==
  /\ pc = "input"
  /\ passive' = detect_passive_voice(text)
  /\ pc' = "detected"
  /\ UNCHANGED <<text, style, cleaned, recleaned, dialogue, speakers, report,
                 suggestions>>

\* main(): char_report = dialogue_by_character(raw_text)
DialogueByCharacter ==
  /\ pc = "input"
  /\ speakers' = dialogue_by_character(text)
  /\ pc' = "speakers"
  /\ UNCHANGED <<text, style, cleaned, recleaned, dialogue, report, passive,
                 suggestions>>

Init ==
  /\ text \in ProseTexts
  /\ style = "None"
  /\ InitResults

Next == AnalyzeText \/ SuggestImprovements \/ DetectPassiveVoice

Spec == Init /\ [][Next]_vars

InitSpeakers ==
  /\ text \in DialogueTexts
  /\ style = "None"
  /\ InitResults

NextSpeakers == DialogueByCharacter \/ ExtractDialogue

SpecSpeakers == InitSpeakers /\ [][NextSpeakers]_vars

InitChars ==
  /\ text \in CharTexts
  /\ style = "None"
  /\ InitResults

NextChars == CleanText \/ CleanAgain \/ ExtractDialogue

SpecChars == InitChars /\ [][NextChars]_vars

(***************************************************************************)
(* Properties                                                              *)
(***************************************************************************)
Contains(s, sub) == \E i \in 1..Len(s) : MatchesAt(s, i, sub)

\* C4: clean_text is idempotent: cleaning a cleaned text changes nothing.
C4_CleanIdempotent == pc = "recleaned" => recleaned = cleaned

\* a run of three hyphens and whitespace went through both cleanings
C4_Witness ==
  /\ pc = "recleaned"
  /\ Contains(text, <<"-", "-", "-">>)
  /\ \E i \in 1..Len(text) : IsSpace(text[i])
  /\ cleaned # text
  /\ recleaned = cleaned

\* C5: the output of clean_text holds no curly double quote, no curly single
\* quote and no two adjacent hyphens.
C5_CleanNoCurlyNoDoubleHyphen ==
  pc = "cleaned" =>
    /\ \A i \in 1..Len(cleaned) :
         cleaned[i] \notin {"LDQUO", "RDQUO", "LSQUO", "RSQUO"}
    /\ ~Contains(cleaned, <<"-", "-">>)

\* hyphens separated only by whitespace, and a curly quote, were cleaned
C5_Witness ==
  /\ pc = "cleaned"
  /\ \E i \in 1..Len(text) : text[i] \in {"LDQUO", "RDQUO", "LSQUO", "RSQUO"}
  /\ Contains(text, <<"-", " ", "-">>)
  /\ Contains(cleaned, <<"-", " ", "-">>)

\* what C7 describes: the spans opened and closed by quotes of the same kind
RECURSIVE SameKindMatches(_, _)
SameKindMatches(s, i) ==
  IF i > Len(s) THEN <<>>
  ELSE LET j == RunNotIn(s, i + 1, DialogueQuotes)
       IN  IF /\ j >= i + 1
              /\ j + 1 <= Len(s)
              /\ \/ s[i] = "\"" /\ s[j + 1] = "\""
                 \/ s[i] = "LDQUO" /\ s[j + 1] = "RDQUO"
           THEN <<SubSeq(s, i + 1, j)>> \o SameKindMatches(s, j + 2)
           ELSE SameKindMatches(s, i + 1)

\* C7: extract_dialogue returns, in document order, exactly the trimmed
\* non-empty contents of the spans enclosed in a matching pair of double
\* quotes (straight with straight, curly open with curly close).
C7_DialogueMatchingQuotes ==
  pc = "dialogue" =>
    dialogue = Join(<<"\n">>, StrippedNonEmpty(SameKindMatches(text, 1)))

PresetNames == {"Gritty", "Snappy", "Poetic", "Technical", "Sparse"}

KindsIn(r) == {r[k].kind : k \in DOMAIN r}

\* C1: style selection only annotates the report: with a style that is no
\* preset name the report is that of style "None"; with a preset name it is
\* the 4-line preset header (name, emphasis, note, blank line) followed by
\* exactly the report of style "None".
C1_StyleOnlyAnnotates ==
  pc = "analyzed" =>
    LET plain == analyze_text(text, "None")
    IN  IF style \in PresetNames
        THEN /\ Len(report) = Len(plain) + 4
             /\ report[1] = [kind |-> "style", name |-> style]
             /\ report[2] = [kind |-> "focus",
                             emphasis |-> STYLE_PRESETS[style].emphasis]
             /\ report[3] = [kind |-> "note", note |-> STYLE_PRESETS[style].note]
             /\ report[4] = Blank
             /\ SubSeq(report, 5, Len(report)) = plain
        ELSE report = plain

\* a report with a long sentence in it was composed under the Poetic preset
C1_Witness ==
  /\ pc = "analyzed"
  /\ style = "Poetic"
  /\ "long" \in KindsIn(report)

SectionLabels ==
  << "Analysis Report:", "Common Filler Words Found:",
     "Long Sentences (over 30 words):",
     "Top 5 Most Frequent Words (excl. stopwords):",
     "Potential Passive Voice Sentences:", "Smart Suggestions:" >>

IsSectionHead(x) == x.kind \in {"style", "heading"}

\* the kinds of report lines each section may hold under its label
SectionKinds ==
  << {"stat", "textstat", "line"}, {"count"}, {"long"}, {"count"},
     {"passive", "line"}, {"suggestions"} >>

\* the number of section labels among the first k lines of r
LabelsUpTo(r, k) == Cardinality({j \in 1..k : r[j].kind = "heading"})

\* C2: the report holds each section label exactly once, as a section
\* heading, in the fixed order: preset header (if and only if the style is a
\* preset name), summary statistics (total words, total sentences, average
\* sentence length, grade level), filler words, long sentences, top-5 frequent
\* words, passive voice, and last the smart suggestions carrying the output of
\* suggest_improvements.
C2_SectionOrder ==
  pc = "analyzed" =>
    LET heads == SelectSeq(report, IsSectionHead)
        preset == IF style \in PresetNames THEN 1 ELSE 0
        first == IF preset = 1 THEN 5 ELSE 1
    IN  /\ Len(heads) = preset + Len(SectionLabels)
        /\ preset = 1 => heads[1] = [kind |-> "style", name |-> style]
        /\ \A k \in 1..Len(SectionLabels) :
             heads[preset + k] = Heading(SectionLabels[k])
        /\ report[first] = Heading("Analysis Report:")
        /\ <<report[first + 1].label, report[first + 2].label,
             report[first + 3].label, report[first + 4].label>>
             = <<"Total words", "Total sentences", "Avg sentence length",
                 "Reading grade level">>
        /\ \A k \in first..Len(report) :
             report[k].kind # "heading" =>
               report[k].kind \in SectionKinds[LabelsUpTo(report, k)]
        /\ report[Len(report) - 1] = Heading("Smart Suggestions:")
        /\ report[Len(report)] =
             [kind |-> "suggestions", body |-> suggest_improvements(text)]

\* a report under a preset with a passive sentence and a frequent word listed
C2_Witness ==
  /\ pc = "analyzed"
  /\ style \in PresetNames
  /\ {"passive", "count"} \subseteq KindsIn(report)

\* the lines of report r under the label l, up to the next label
SectionOf(r, l) ==
  LET h == CHOOSE k \in DOMAIN r : r[k] = Heading(l)
      e == RunNotIn([k \in DOMAIN r |-> r[k].kind], h + 1, {"heading"})
  IN  SubSeq(r, h + 1, e)

IsSentinel(x) ==
  \/ x.kind = "line" /\ x.line # ""
  \/ x.kind = "suggestions" /\ x.body = <<NoSuggestions>>

\* C3 as stated: the report of the empty text under style "None" has zero
\* counts and a sentinel message in each of the five findings sections.
C3_EmptySentinelEverywhere ==
  (pc = "analyzed" /\ text = <<>> /\ style = "None") =>
    /\ report[2] = [kind |-> "stat", label |-> "Total words", value |-> 0]
    /\ \A k \in 2..Len(SectionLabels) :
         \E x \in Range(SectionOf(report, SectionLabels[k])) : IsSentinel(x)

\* C3, amended: the report of the empty text under style "None" has a total
\* word count of zero and no finding; the passive-voice and the suggestions
\* sections hold their sentinel, and the filler-word, long-sentence and
\* frequent-word sections hold their label alone.
C3_EmptyReport ==
  (pc = "analyzed" /\ text = <<>> /\ style = "None") =>
    /\ report[1] = Heading("Analysis Report:")
    /\ report[2] = [kind |-> "stat", label |-> "Total words", value |-> 0]
    /\ SectionOf(report, "Common Filler Words Found:") = <<>>
    /\ SectionOf(report, "Long Sentences (over 30 words):") = <<>>
    /\ SectionOf(report, "Top 5 Most Frequent Words (excl. stopwords):") = <<>>
    /\ SectionOf(report, "Potential Passive Voice Sentences:") = <<NoneFound>>
    /\ SectionOf(report, "Smart Suggestions:") =
         <<[kind |-> "suggestions", body |-> <<NoSuggestions>>]>>

\* the empty text was analyzed under style "None"
C3_Witness == pc = "analyzed" /\ text = <<>> /\ style = "None" /\ report # <<>>

\* the blocks of a suggest_improvements result that carry the advice a
HasAdvice(b, a) ==
  b.kind = "suggestion" /\ \E k \in DOMAIN b.issues : b.issues[k] = a

\* C6: on the same text the passive-voice detector returns sentence n with
\* text s if and only if suggest_improvements emits a block "Sentence n" with
\* the same text that carries the active-voice advice.
C6_PassiveAgreement ==
  pc = "analyzed" =>
    LET found == {<<x.n, x.s>> :
                    x \in {y \in Range(report) : y.kind = "passive"}}
        advised == {<<b.n, b.s>> :
                      b \in {y \in Range(report[Len(report)].body) :
                               HasAdvice(y, ActiveAdvice)}}
    IN  found = advised

\* the occurrences of the filler words among the words of a sentence
RECURSIVE WordOccurrences(_, _)
WordOccurrences(words, k) ==
  IF k > Len(FILLER_WORDS) THEN 0
  ELSE CountEq(words, FILLER_WORDS[k]) + WordOccurrences(words, k + 1)

\* C9: suggest_improvements gives a sentence the filler-word advice if and
\* only if the filler words occur in it, case-insensitively and as words, more
\* than 2 times in all.  The words of a sentence are taken both ways: split at
\* whitespace, as the filler-word counter splits (a word with punctuation
\* attached is then no occurrence), and split at punctuation too; the advice
\* must be given when the first count exceeds 2 and only when the second does.
C9_FillerAdviceByWords ==
  pc = "suggested" =>
    LET sentences == PunktTokenize(text)
        advised(n) ==
          \E k \in DOMAIN suggestions :
            HasAdvice(suggestions[k], FillerAdvice) /\ suggestions[k].n = n
    IN  \A n \in DOMAIN sentences :
          /\ WordOccurrences(Split(Lower(sentences[n])), 1) > 2 => advised(n)
          /\ advised(n) =>
               WordOccurrences(wordpunct_tokenize(Lower(sentences[n])), 1) > 2

\* C10: a sentence is listed in the long-sentence section if and only if its
\* word-punct tokenization has more than 30 tokens (31 is listed, 30 is not),
\* and exactly the listed sentences, under the same ordinals, get the
\* long-sentence advice of suggest_improvements.
C10_LongSentences ==
  pc = "analyzed" =>
    LET sentences == PunktTokenize(text)
        tokens(n) == Len(wordpunct_tokenize(sentences[n]))
        long == {n \in DOMAIN sentences : tokens(n) > 30}
        listed == {x \in Range(report) : x.kind = "long"}
        advised == {b.n : b \in {y \in Range(report[Len(report)].body) :
                                   HasAdvice(y, LongAdvice)}}
    IN  /\ {x.n : x \in listed} = long
        /\ \A x \in listed : x.wc = tokens(x.n) /\ x.s = sentences[x.n]
        /\ Cardinality(listed) = Cardinality(long)
        /\ advised = long

\* the second sentence, of exactly 31 tokens, is listed and advised
C10_Witness ==
  /\ pc = "analyzed"
  /\ \E x \in Range(report) : x.kind = "long" /\ x.n = 2 /\ x.wc = 31
  /\ \E b \in Range(report[Len(report)].body) :
       HasAdvice(b, LongAdvice) /\ b.n = 2

FirstIndex(seq, x) == CHOOSE i \in DOMAIN seq : seq[i] = x /\ \A j \in 1..(i - 1) : seq[j] # x

\* C8: dialogue_by_character lists each distinct speaker once, with the number
\* of attribution matches that name the speaker, in non-increasing order of
\* count, speakers of equal count in the order of their first match; with no
\* match the result is the "No named characters found." sentinel.
C8_SpeakerCounts ==
  pc = "speakers" =>
    LET matches == AttributionMatches(text, 1)
        rows == Tail(speakers)
    IN  IF matches = <<>> THEN speakers = <<NoNamedCharacters>>
        ELSE /\ speakers[1] = Heading("Dialogue by Character:")
             /\ \A k \in DOMAIN rows : rows[k].kind = "speaker"
             /\ {rows[k].name : k \in DOMAIN rows} = Range(matches)
             /\ \A j, k \in DOMAIN rows : j # k => rows[j].name # rows[k].name
             /\ \A k \in DOMAIN rows : rows[k].lines = CountEq(matches, rows[k].name)
             /\ \A j, k \in DOMAIN rows :
                  j < k =>
                    \/ rows[j].lines > rows[k].lines
                    \/ /\ rows[j].lines = rows[k].lines
                       /\ FirstIndex(matches, rows[j].name)
                            < FirstIndex(matches, rows[k].name)

\* three speakers: the one matched second leads with two lines, the other two
\* tie and keep the order of their first match
C8_Witness ==
  /\ pc = "speakers"
  /\ Len(speakers) = 4
  /\ speakers[2].lines = 2
  /\ speakers[3].lines = 1
  /\ speakers[4].lines = 1
  /\ LET matches == AttributionMatches(text, 1)
     IN  /\ matches[1] = speakers[3].name
         /\ FirstIndex(matches, speakers[2].name) = 2
         /\ FirstIndex(matches, speakers[4].name) > 2

====
